---- MODULE Spec2Model ----
(***************************************************************************)
(* Grythm: families of parallel grid lines sweeping over tracked points.   *)
(* Model of Game (src/main.go) and Vec2 (src/unnamed/part_000).            *)
(*                                                                         *)
(* float64 values are held in fixed point.  A length (pixels) is an        *)
(* integer number of 1/LFP pixels; a dimensionless number (a component of  *)
(* a unit vector) is an integer number of 1/UFP.  One tick of speed        *)
(* (accel*dt = 2 px/s) moves the pattern by exactly one length unit.       *)
(* Products of a dimensionless number and a length are rounded to the      *)
(* nearest length unit, as float64 rounds to the nearest value.            *)
(* Indices are Go's (0-based) in hoverIdx and in the trigger log; TLA+     *)
(* sequences are 1-based, so Points[i+1] is Go's g.Points[i].              *)
(***************************************************************************)
EXTENDS Integers, Sequences, FiniteSets, TLC

VARIABLES
    Grids,        \* g.Grids: sequence of GridFamily records
    Points,       \* g.Points: sequence of Vec2
    moveDir,      \* g.moveDir: unit Vec2
    speed,        \* g.speed: length units per second
    lastInside,   \* g.lastInside[gi][pi]
    hoverIdx,     \* g.hoverIdx: -1 or a Go index into Points
    keys,         \* arrow keys held when the latest Update polled them
    tick,         \* number of Update calls so far
    step,         \* the velocity step of the latest Update
    blips,        \* playBlip calls of the latest Update, in call order: <<gi, pi>>
    prevInside,   \* lastInside as the latest touch pass found it (after the click handling)
    lastOp,       \* click handling of the latest Update: "none", "add", "remove"
    removedIdx,   \* Go index removed by the latest Update, or -1
    oob,          \* TRUE once an Update indexed lastInside out of range (Go panics)
    pids,         \* identity of each tracked point, parallel to Points
    nextId,       \* next unused point identity
    hist,         \* per point identity and family: trigger history
    fn            \* latest call of a pure function on drawn inputs (SpecFn)

vars == <<Grids, Points, moveDir, speed, lastInside, hoverIdx, keys, tick, step,
          blips, prevInside, lastOp, removedIdx, oob, pids, nextId, hist, fn>>

gameVars == <<Grids, Points, moveDir, speed, lastInside, hoverIdx, keys, tick, step,
              blips, prevInside, lastOp, removedIdx, oob, pids, nextId, hist>>

---------------------------------------------------------------------------
(* Bounds of the model *)

MaxTicks == 3        \* Update calls explored under Spec
MaxPoints == 7       \* tracked points explored under Spec
MaxHeldTicks == 900  \* Update calls explored under SpecHeld
MaxClickTicks == 3   \* Update calls explored under SpecClick

---------------------------------------------------------------------------
(* Fixed point *)

LFP == 30     \* length units per pixel
UFP == 1000   \* units per 1.0 of a dimensionless number

Abs(x) == IF x < 0 THEN -x ELSE x

\* math.Round(n/d), d > 0: to the nearest integer, halves away from zero
Round(n, d) ==
    IF n >= 0 THEN (2 * n + d) \div (2 * d) ELSE -((2 * (-n) + d) \div (2 * d))

\* math.Mod(x, y), y > 0: the remainder has the sign of x
GoMod(x, y) == IF x >= 0 THEN x % y ELSE -((-x) % y)

RECURSIVE SqrtSearch(_, _, _)
SqrtSearch(n, lo, hi) ==
    IF lo >= hi THEN lo
    ELSE LET mid == (lo + hi + 1) \div 2
         IN  IF mid * mid <= n THEN SqrtSearch(n, mid, hi)
             ELSE SqrtSearch(n, lo, mid - 1)

\* 46340 is the largest root whose square fits TLC's 32-bit integers
ISqrt(n) == SqrtSearch(n, 0, 46340)

\* math.Hypot: the root of the sum of squares, without squaring on an axis
Hypot(x, y) ==
    IF x = 0 THEN Abs(y) ELSE IF y = 0 THEN Abs(x) ELSE ISqrt(x * x + y * y)

---------------------------------------------------------------------------
(* Vec2 *)

Vec(x, y) == [X |-> x, Y |-> y]

Add(a, b) == Vec(a.X + b.X, a.Y + b.Y)
Sub(a, b) == Vec(a.X - b.X, a.Y - b.Y)
\* one operand of a product is dimensionless (scale UFP)
Mul(a, s) == Vec(Round(a.X * s, UFP), Round(a.Y * s, UFP))
Dot(a, b) == Round(a.X * b.X + a.Y * b.Y, UFP)
VLen(a) == Hypot(a.X, a.Y)
Norm(a) ==
    LET l == VLen(a)
    IN  IF l = 0 THEN Vec(0, 0) ELSE Vec(Round(a.X * UFP, l), Round(a.Y * UFP, l))
Perp(a) == Vec(-a.Y, a.X)

---------------------------------------------------------------------------
(* Program constants *)

W == 960
H == 640
TicksPerSec == 60      \* dt = 1.0 / 60.0
HoverRadiusPx == 10
RotSpeedDeg == 90
AccelPx == 120
InitSpeedPx == 120
SpacingPx == 60
ThicknessPx == 2
DashPx == 60
GapPx == 60

HoverRadius == HoverRadiusPx * LFP
\* angles a tick of rotation apart: a full turn is this many ticks
NumAngles == (360 * TicksPerSec) \div RotSpeedDeg
\* accel * dt, in length units per second
AccelStep == (AccelPx * LFP) \div TicksPerSec

Center == Vec((W * LFP) \div 2, (H * LFP) \div 2)
Diag == Hypot(W * LFP, H * LFP)

\* (math.Cos(a), math.Sin(a)) at scale UFP for the angles
\* atan2(0.3, 1) + i * rotSpeed * dt, i = 0 .. NumAngles - 1
DirTab == <<
    <<958, 287>>, <<950, 312>>, <<941, 337>>, <<932, 362>>, <<923, 386>>, <<912, 410>>,
    <<901, 434>>, <<889, 457>>, <<877, 480>>, <<864, 503>>, <<851, 525>>, <<837, 548>>,
    <<822, 569>>, <<807, 591>>, <<791, 612>>, <<775, 632>>, <<758, 652>>, <<741, 672>>,
    <<723, 691>>, <<705, 710>>, <<686, 728>>, <<667, 745>>, <<647, 763>>, <<627, 779>>,
    <<606, 795>>, <<585, 811>>, <<564, 826>>, <<542, 841>>, <<520, 854>>, <<497, 868>>,
    <<474, 880>>, <<451, 893>>, <<427, 904>>, <<404, 915>>, <<379, 925>>, <<355, 935>>,
    <<331, 944>>, <<306, 952>>, <<281, 960>>, <<255, 967>>, <<230, 973>>, <<205, 979>>,
    <<179, 984>>, <<153, 988>>, <<127, 992>>, <<101, 995>>, <<75, 997>>, <<49, 999>>,
    <<23, 1000>>, <<-3, 1000>>, <<-30, 1000>>, <<-56, 998>>, <<-82, 997>>, <<-108, 994>>,
    <<-134, 991>>, <<-160, 987>>, <<-186, 983>>, <<-211, 977>>, <<-237, 972>>, <<-262, 965>>,
    <<-287, 958>>, <<-312, 950>>, <<-337, 941>>, <<-362, 932>>, <<-386, 923>>, <<-410, 912>>,
    <<-434, 901>>, <<-457, 889>>, <<-480, 877>>, <<-503, 864>>, <<-525, 851>>, <<-548, 837>>,
    <<-569, 822>>, <<-591, 807>>, <<-612, 791>>, <<-632, 775>>, <<-652, 758>>, <<-672, 741>>,
    <<-691, 723>>, <<-710, 705>>, <<-728, 686>>, <<-745, 667>>, <<-763, 647>>, <<-779, 627>>,
    <<-795, 606>>, <<-811, 585>>, <<-826, 564>>, <<-841, 542>>, <<-854, 520>>, <<-868, 497>>,
    <<-880, 474>>, <<-893, 451>>, <<-904, 427>>, <<-915, 404>>, <<-925, 379>>, <<-935, 355>>,
    <<-944, 331>>, <<-952, 306>>, <<-960, 281>>, <<-967, 255>>, <<-973, 230>>, <<-979, 205>>,
    <<-984, 179>>, <<-988, 153>>, <<-992, 127>>, <<-995, 101>>, <<-997, 75>>, <<-999, 49>>,
    <<-1000, 23>>, <<-1000, -3>>, <<-1000, -30>>, <<-998, -56>>, <<-997, -82>>, <<-994, -108>>,
    <<-991, -134>>, <<-987, -160>>, <<-983, -186>>, <<-977, -211>>, <<-972, -237>>, <<-965, -262>>,
    <<-958, -287>>, <<-950, -312>>, <<-941, -337>>, <<-932, -362>>, <<-923, -386>>, <<-912, -410>>,
    <<-901, -434>>, <<-889, -457>>, <<-877, -480>>, <<-864, -503>>, <<-851, -525>>, <<-837, -548>>,
    <<-822, -569>>, <<-807, -591>>, <<-791, -612>>, <<-775, -632>>, <<-758, -652>>, <<-741, -672>>,
    <<-723, -691>>, <<-705, -710>>, <<-686, -728>>, <<-667, -745>>, <<-647, -763>>, <<-627, -779>>,
    <<-606, -795>>, <<-585, -811>>, <<-564, -826>>, <<-542, -841>>, <<-520, -854>>, <<-497, -868>>,
    <<-474, -880>>, <<-451, -893>>, <<-427, -904>>, <<-404, -915>>, <<-379, -925>>, <<-355, -935>>,
    <<-331, -944>>, <<-306, -952>>, <<-281, -960>>, <<-255, -967>>, <<-230, -973>>, <<-205, -979>>,
    <<-179, -984>>, <<-153, -988>>, <<-127, -992>>, <<-101, -995>>, <<-75, -997>>, <<-49, -999>>,
    <<-23, -1000>>, <<3, -1000>>, <<30, -1000>>, <<56, -998>>, <<82, -997>>, <<108, -994>>,
    <<134, -991>>, <<160, -987>>, <<186, -983>>, <<211, -977>>, <<237, -972>>, <<262, -965>>,
    <<287, -958>>, <<312, -950>>, <<337, -941>>, <<362, -932>>, <<386, -923>>, <<410, -912>>,
    <<434, -901>>, <<457, -889>>, <<480, -877>>, <<503, -864>>, <<525, -851>>, <<548, -837>>,
    <<569, -822>>, <<591, -807>>, <<612, -791>>, <<632, -775>>, <<652, -758>>, <<672, -741>>,
    <<691, -723>>, <<710, -705>>, <<728, -686>>, <<745, -667>>, <<763, -647>>, <<779, -627>>,
    <<795, -606>>, <<811, -585>>, <<826, -564>>, <<841, -542>>, <<854, -520>>, <<868, -497>>,
    <<880, -474>>, <<893, -451>>, <<904, -427>>, <<915, -404>>, <<925, -379>>, <<935, -355>>,
    <<944, -331>>, <<952, -306>>, <<960, -281>>, <<967, -255>>, <<973, -230>>, <<979, -205>>,
    <<984, -179>>, <<988, -153>>, <<992, -127>>, <<995, -101>>, <<997, -75>>, <<999, -49>>,
    <<1000, -23>>, <<1000, 3>>, <<1000, 30>>, <<998, 56>>, <<997, 82>>, <<994, 108>>,
    <<991, 134>>, <<987, 160>>, <<983, 186>>, <<977, 211>>, <<972, 237>>, <<965, 262>> >>

Dir(i) == Vec(DirTab[(i % NumAngles) + 1][1], DirTab[(i % NumAngles) + 1][2])
\* math.Atan2(v.Y, v.X) as the index of the angle
AngleOf == [v \in {Dir(i) : i \in 0..(NumAngles - 1)} |->
               CHOOSE i \in 0..(NumAngles - 1) : Dir(i) = v]
Atan2(v) == AngleOf[v]

NewGridFamily(normal, spacing, color, thickness, dash, gap) ==
    [Normal |-> Norm(normal), Spacing |-> spacing, Offset |-> 0, Color |-> color,
     Thickness |-> thickness, DashLength |-> dash, GapLength |-> gap, DashPhase |-> 0]

Grids0 == <<
    NewGridFamily(Vec(UFP, 0), SpacingPx * LFP, "6666FF", ThicknessPx * LFP,
                  DashPx * LFP, GapPx * LFP),
    NewGridFamily(Vec(0, UFP), SpacingPx * LFP, "66FF66", ThicknessPx * LFP, 0, 0) >>

Points0 == <<
    Vec((W * LFP) \div 4, (H * LFP) \div 2),
    Vec((W * LFP) \div 2, (H * LFP) \div 2),
    Vec((3 * W * LFP) \div 4, (H * LFP) \div 2),
    Vec((W * LFP) \div 2, (H * LFP) \div 4),
    Vec((W * LFP) \div 2, (3 * H * LFP) \div 4) >>

MoveDir0 == Norm(Vec(UFP, (3 * UFP) \div 10))

---------------------------------------------------------------------------
(* Inputs *)

\* ebiten.CursorPosition(), in pixels: on Points0[2]; within the hover radius of
\* Points0[1]; an empty place on a line of the solid family; an empty place
\* on no line
Cursors == { <<480, 320>>, <<246, 328>>, <<100, 380>>, <<100, 350>> }
FarCursor == <<900, 50>>

\* arrow keys held during a frame
KeyStates == { {}, {"Left", "Up"}, {"Right", "Down"} }
\* arrow keys held for a whole run
HeldKeys == { {}, {"Left"}, {"Right"}, {"Up"}, {"Down"} }

---------------------------------------------------------------------------
(* Hover scan, main.go 98-107 *)

\* variant: bestDist is not lowered, the last point within the radius wins
RECURSIVE HoverScan_Last(_, _, _, _, _)
HoverScan_Last(points, mouse, i, bestDist, best) ==
    IF i > Len(points) THEN best
    ELSE LET d == Hypot(points[i].X - mouse.X, points[i].Y - mouse.Y)
         IN  IF d <= bestDist THEN HoverScan_Last(points, mouse, i + 1, bestDist, i - 1)
             ELSE HoverScan_Last(points, mouse, i + 1, bestDist, best)
RECURSIVE HoverScan(_, _, _, _, _)
HoverScan(points, mouse, i, bestDist, best) ==
    IF i > Len(points) THEN best
    ELSE LET d == Hypot(points[i].X - mouse.X, points[i].Y - mouse.Y)
         IN  IF d <= bestDist THEN HoverScan(points, mouse, i + 1, d, i - 1)
             ELSE HoverScan(points, mouse, i + 1, bestDist, best)

Hover(points, mouse) == HoverScan(points, mouse, 1, HoverRadius, -1)

---------------------------------------------------------------------------
(* Click handling, main.go 109-126 *)

\* append(s[:idx], s[idx+1:]...)
RemoveAt(s, idx) ==
    [i \in 1..(Len(s) - 1) |-> IF i < idx + 1 THEN s[i] ELSE s[i + 1]]

RemovePoint(points, idx) == RemoveAt(points, idx)
\* variant: the row loses its last entry instead of entry idx
RemoveCell_Last(row, idx) == SubSeq(row, 1, Len(row) - 1)
RemoveCell(row, idx) == RemoveAt(row, idx)
AddPoint(points, mouse) == Append(points, mouse)
\* variants: the row gets no entry; the row gets a true entry
AddCell_None(row) == row
AddCell_True(row) == Append(row, TRUE)
AddCell(row) == Append(row, FALSE)

ClickPoints(points, mouse, click, hov) ==
    IF ~click THEN points
    ELSE IF hov >= 0 THEN RemovePoint(points, hov)
    ELSE AddPoint(points, mouse)

ClickRows(rows, click, hov) ==
    IF ~click THEN rows
    ELSE IF hov >= 0 THEN [gi \in DOMAIN rows |-> RemoveCell(rows[gi], hov)]
    ELSE [gi \in DOMAIN rows |-> AddCell(rows[gi])]

\* variant: g.hoverIdx is not reset by a removal
ClickHover_Keep(click, hov) == hov
ClickHover(click, hov) == IF click /\ hov >= 0 THEN -1 ELSE hov

---------------------------------------------------------------------------
(* Direction and speed, main.go 128-150 *)

Rotate(angle, k) ==
    LET a1 == IF "Left" \in k THEN angle - 1 ELSE angle
    IN  IF "Right" \in k THEN a1 + 1 ELSE a1

Turn(dir, k) == Dir(Rotate(Atan2(dir), k) + NumAngles)

\* variant: no clamp at zero
AdjustSpeed_NoClamp(s, k) ==
    LET s1 == IF "Up" \in k THEN s + AccelStep ELSE s
    IN  IF "Down" \in k THEN s1 - AccelStep ELSE s1
AdjustSpeed(s, k) ==
    LET s1 == IF "Up" \in k THEN s + AccelStep ELSE s
        s2 == IF "Down" \in k THEN s1 - AccelStep ELSE s1
    IN  IF s2 < 0 THEN 0 ELSE s2

---------------------------------------------------------------------------
(* Motion, main.go 152-164 *)

Step(dir, s) == Mul(dir, s \div TicksPerSec)

\* variant: the spacing slides with the offset
Advance_Respace(gf, st) ==
    [gf EXCEPT !.Offset = @ + Dot(gf.Normal, st),
               !.DashPhase = @ - Dot(Perp(gf.Normal), st),
               !.Spacing = @ + Dot(gf.Normal, st)]
\* variant: the dash phase moves the other way
Advance_PlusPhase(gf, st) ==
    [gf EXCEPT !.Offset = @ + Dot(gf.Normal, st),
               !.DashPhase = @ + Dot(Perp(gf.Normal), st)]
Advance(gf, st) ==
    [gf EXCEPT !.Offset = @ + Dot(gf.Normal, st),
               !.DashPhase = @ - Dot(Perp(gf.Normal), st)]

---------------------------------------------------------------------------
(* Touch detection, main.go 166-208 *)

DAlong(gf, p) == Dot(gf.Normal, Sub(p, Center))

\* variant: the quotient is truncated instead of rounded
NearestK_Floor(dAlong, offset, spacing) ==
    IF dAlong - offset >= 0 THEN (dAlong - offset) \div spacing
    ELSE -((offset - dAlong) \div spacing)
NearestK(dAlong, offset, spacing) == Round(dAlong - offset, spacing)

Closest(dAlong, offset, spacing) == NearestK(dAlong, offset, spacing) * spacing + offset

Dist(dAlong, offset, spacing) == Abs(dAlong - Closest(dAlong, offset, spacing))

\* if gf.DashLength <= 0 || gf.GapLength <= 0 { inside = true } else { ... }
\* variant: the dash length is not looked at
IsDashed_GapOnly(gf) == gf.GapLength > 0
IsDashed(gf) == ~(gf.DashLength <= 0 \/ gf.GapLength <= 0)

\* pos := diag - s0 - gf.DashPhase
DashPos(gf, p) ==
    LET n == gf.Normal
        t == Perp(n)
        closest == Closest(DAlong(gf, p), gf.Offset, gf.Spacing)
        pt == Add(Center, Mul(n, closest))
        s0 == Dot(t, Sub(p, pt))
    IN  Diag - s0 - gf.DashPhase

\* variant: a single math.Mod, negative for a negative pos
DashM_NoShift(pos, period) == GoMod(pos, period)
DashM(pos, period) == GoMod(GoMod(pos, period) + period, period)

\* inside = m < gf.DashLength
\* variant: the dash interval is closed
InDash_Closed(gf, p) == DashM(DashPos(gf, p), gf.DashLength + gf.GapLength) <= gf.DashLength
InDash(gf, p) == DashM(DashPos(gf, p), gf.DashLength + gf.GapLength) < gf.DashLength

Inside(gf, p) ==
    IF Dist(DAlong(gf, p), gf.Offset, gf.Spacing) <= gf.Thickness
    THEN IF ~IsDashed(gf) THEN TRUE ELSE InDash(gf, p)
    ELSE FALSE

\* if inside && !g.lastInside[gi][pi] { g.playBlip() }
\* variant: level-triggered
Fires_Level(inside, last) == inside
\* variant: triggered by any change
Fires_Change(inside, last) == inside # last
Fires(inside, last) == inside /\ ~last
\* g.lastInside[gi][pi] = inside
\* variant: the stored value is never overwritten
Store_Keep(inside, last) == last
\* variant: the stored value is written only when a trigger fires
Store_OnFire(inside, last) == IF Fires(inside, last) THEN inside ELSE last
Store(inside, last) == inside

\* the (gi, pi) pairs in the order of the two nested loops, Go indices
LoopPairs(ng, np) ==
    [k \in 1..(ng * np) |-> <<(k - 1) \div np, (k - 1) % np>>]

InRange(rows, pr) ==
    /\ pr[1] + 1 \in DOMAIN rows
    /\ pr[2] + 1 \in DOMAIN rows[pr[1] + 1]

\* inside of every pair, as one pass computes it
InsideAll(grids, points) ==
    [gi \in DOMAIN grids |-> [pi \in DOMAIN points |-> Inside(grids[gi], points[pi])]]

\* the playBlip calls of one pass
TouchBlips(ins, rows) ==
    LET np == IF Len(ins) = 0 THEN 0 ELSE Len(ins[1])
        Hit(pr) == /\ InRange(rows, pr)
                   /\ Fires(ins[pr[1] + 1][pr[2] + 1], rows[pr[1] + 1][pr[2] + 1])
    IN  SelectSeq(LoopPairs(Len(ins), np), Hit)

\* lastInside after one pass
TouchRows(ins, rows) ==
    [gi \in DOMAIN rows |->
        [pi \in DOMAIN rows[gi] |->
            IF gi \in DOMAIN ins /\ pi \in DOMAIN ins[gi]
            THEN Store(ins[gi][pi], rows[gi][pi])
            ELSE rows[gi][pi]]]

\* the body of the two loops for the pair pr = <<gi, pi>> (Go indices), on the
\* state st = [grids, points, rows, blips] the pass has reached
\* variant: the trigger reads the stored value of the pair's left neighbour
EvalPair_Neighbour(st, pr) ==
    LET gi == pr[1] + 1
        pi == pr[2] + 1
        inside == Inside(st.grids[gi], st.points[pi])
        last == st.rows[gi][IF pi > 1 THEN pi - 1 ELSE pi]
    IN  [st EXCEPT !.rows[gi][pi] = Store(inside, last),
                   !.blips = IF Fires(inside, last) THEN Append(@, pr) ELSE @]
EvalPair(st, pr) ==
    LET gi == pr[1] + 1
        pi == pr[2] + 1
        inside == Inside(st.grids[gi], st.points[pi])
        last == st.rows[gi][pi]
    IN  [st EXCEPT !.rows[gi][pi] = Store(inside, last),
                   !.blips = IF Fires(inside, last) THEN Append(@, pr) ELSE @]

\* the bodies for the pairs of order, one after the other
RECURSIVE PassOver(_, _)
PassOver(st, order) ==
    IF order = << >> THEN st ELSE PassOver(EvalPair(st, Head(order)), Tail(order))

TouchPanics(ins, rows) ==
    \E gi \in DOMAIN ins : \E pi \in DOMAIN ins[gi] : ~InRange(rows, <<gi - 1, pi - 1>>)

---------------------------------------------------------------------------
(* History of triggers per tracked point, kept beside the program state *)

Count(s, x) == Cardinality({i \in DOMAIN s : s[i] = x})

Cell(rows, gi, pi) ==
    IF gi \in DOMAIN rows /\ pi \in DOMAIN rows[gi] THEN rows[gi][pi] ELSE FALSE

IndexOf(ids, id) == CHOOSE i \in DOMAIN ids : ids[i] = id

\* run: consecutive passes, up to the latest, that found the pair inside
\* runFires: triggers of the pair in that run; firstFired: one of them on its first pass
\* startStored: the stored value the first pass of the run read
\* ever: some pass found the pair inside; total: triggers of the pair so far
\* was: inside of the pass before (false for a point not yet evaluated)
\* rises: passes that found the pair inside after one that found it outside
\* fallFires: triggers in passes that found the pair outside
\* alt: passes, up to the latest, each of which found inside other than the
\*      pass before it; altFires: triggers in them; altFirstIn: inside of the
\*      first of them
Hist0 == [run |-> 0, runFires |-> 0, firstFired |-> FALSE, startStored |-> FALSE,
          ever |-> FALSE, total |-> 0,
          was |-> FALSE, rises |-> 0, fallFires |-> 0,
          alt |-> 0, altFires |-> 0, altFirstIn |-> FALSE]

HistStep(old, inside, fired, stored) ==
    [run |-> IF inside THEN old.run + 1 ELSE 0,
     runFires |-> IF inside THEN (IF old.run = 0 THEN 0 ELSE old.runFires) + fired ELSE 0,
     firstFired |-> IF inside THEN (IF old.run = 0 THEN fired >= 1 ELSE old.firstFired)
                    ELSE FALSE,
     startStored |-> IF inside THEN (IF old.run = 0 THEN stored ELSE old.startStored)
                     ELSE FALSE,
     ever |-> old.ever \/ inside,
     total |-> old.total + fired,
     was |-> inside,
     rises |-> old.rises + (IF inside /\ ~old.was THEN 1 ELSE 0),
     fallFires |-> old.fallFires + (IF inside THEN 0 ELSE fired),
     alt |-> IF inside # old.was THEN old.alt + 1 ELSE 0,
     altFires |-> IF inside # old.was THEN old.altFires + fired ELSE 0,
     altFirstIn |-> IF inside # old.was
                    THEN (IF old.alt = 0 THEN inside ELSE old.altFirstIn)
                    ELSE FALSE]

---------------------------------------------------------------------------
(* Game.Update, main.go 89-211 *)

\* variant: the touch pass runs before the motion step
Update_TouchFirst(cursor, click, k) ==
    \E mouse \in {Vec(cursor[1] * LFP, cursor[2] * LFP)} :
    \E hov \in {Hover(Points, mouse)} :
    \E pts1 \in {ClickPoints(Points, mouse, click, hov)} :
    \E rows1 \in {ClickRows(lastInside, click, hov)} :
    \E dir1 \in {Turn(moveDir, k)} :
    \E speed1 \in {AdjustSpeed(speed, k)} :
    \E st \in {Step(dir1, speed1)} :
    \E grids1 \in {[i \in DOMAIN Grids |-> Advance(Grids[i], st)]} :
    \E ins \in {InsideAll(Grids, pts1)} :
    \E fired \in {TouchBlips(ins, rows1)} :
    \E ids1 \in {IF ~click THEN pids
                 ELSE IF hov >= 0 THEN RemoveAt(pids, hov)
                 ELSE Append(pids, nextId)} :
        /\ ~oob
        /\ (click /\ hov < 0) => Len(Points) < MaxPoints
        /\ Points' = pts1
        /\ hoverIdx' = ClickHover(click, hov)
        /\ moveDir' = dir1
        /\ speed' = speed1
        /\ step' = st
        /\ Grids' = grids1
        /\ blips' = fired
        /\ prevInside' = rows1
        /\ lastInside' = TouchRows(ins, rows1)
        /\ oob' = TouchPanics(ins, rows1)
        /\ keys' = k
        /\ tick' = tick + 1
        /\ lastOp' = IF ~click THEN "none" ELSE IF hov >= 0 THEN "remove" ELSE "add"
        /\ removedIdx' = IF click /\ hov >= 0 THEN hov ELSE -1
        /\ pids' = ids1
        /\ nextId' = IF click /\ hov < 0 THEN nextId + 1 ELSE nextId
        /\ hist' = [id \in {ids1[i] : i \in DOMAIN ids1} |->
                      [gi \in DOMAIN grids1 |->
                         LET pi == IndexOf(ids1, id)
                         IN  HistStep(IF id \in DOMAIN hist THEN hist[id][gi] ELSE Hist0,
                                      ins[gi][pi],
                                      Count(fired, <<gi - 1, pi - 1>>),
                                      Cell(rows1, gi, pi))]]

Update(cursor, click, k) ==
    \E mouse \in {Vec(cursor[1] * LFP, cursor[2] * LFP)} :
    \E hov \in {Hover(Points, mouse)} :
    \E pts1 \in {ClickPoints(Points, mouse, click, hov)} :
    \E rows1 \in {ClickRows(lastInside, click, hov)} :
    \E dir1 \in {Turn(moveDir, k)} :
    \E speed1 \in {AdjustSpeed(speed, k)} :
    \E st \in {Step(dir1, speed1)} :
    \E grids1 \in {[i \in DOMAIN Grids |-> Advance(Grids[i], st)]} :
    \E ins \in {InsideAll(grids1, pts1)} :
    \E fired \in {TouchBlips(ins, rows1)} :
    \E ids1 \in {IF ~click THEN pids
                 ELSE IF hov >= 0 THEN RemoveAt(pids, hov)
                 ELSE Append(pids, nextId)} :
        /\ ~oob
        /\ (click /\ hov < 0) => Len(Points) < MaxPoints
        /\ Points' = pts1
        /\ hoverIdx' = ClickHover(click, hov)
        /\ moveDir' = dir1
        /\ speed' = speed1
        /\ step' = st
        /\ Grids' = grids1
        /\ blips' = fired
        /\ prevInside' = rows1
        /\ lastInside' = TouchRows(ins, rows1)
        /\ oob' = TouchPanics(ins, rows1)
        /\ keys' = k
        /\ tick' = tick + 1
        /\ lastOp' = IF ~click THEN "none" ELSE IF hov >= 0 THEN "remove" ELSE "add"
        /\ removedIdx' = IF click /\ hov >= 0 THEN hov ELSE -1
        /\ pids' = ids1
        /\ nextId' = IF click /\ hov < 0 THEN nextId + 1 ELSE nextId
        /\ hist' = [id \in {ids1[i] : i \in DOMAIN ids1} |->
                      [gi \in DOMAIN grids1 |->
                         LET pi == IndexOf(ids1, id)
                         IN  HistStep(IF id \in DOMAIN hist THEN hist[id][gi] ELSE Hist0,
                                      ins[gi][pi],
                                      Count(fired, <<gi - 1, pi - 1>>),
                                      Cell(rows1, gi, pi))]]

---------------------------------------------------------------------------
(* NewGame, main.go 48-87 *)

NewGame ==
    /\ Grids = Grids0
    /\ Points = Points0
    /\ moveDir = MoveDir0
    /\ speed = InitSpeedPx * LFP
    /\ lastInside = [gi \in DOMAIN Grids0 |-> [pi \in DOMAIN Points0 |-> FALSE]]
    /\ hoverIdx = -1

Ghost0 ==
    /\ tick = 0
    /\ step = Vec(0, 0)
    /\ blips = << >>
    /\ prevInside = [gi \in DOMAIN Grids0 |-> [pi \in DOMAIN Points0 |-> FALSE]]
    /\ lastOp = "none"
    /\ removedIdx = -1
    /\ oob = FALSE
    /\ pids = [i \in DOMAIN Points0 |-> i]
    /\ nextId = Len(Points0) + 1
    /\ hist = [id \in DOMAIN Points0 |-> [gi \in DOMAIN Grids0 |-> Hist0]]
    /\ fn = [op |-> "none"]

Init == NewGame /\ Ghost0 /\ keys = {}

\* one frame: the cursor, the mouse button and the keys are what the frame polls
Tick ==
    \E cursor \in Cursors, click \in BOOLEAN, k \in KeyStates :
        /\ tick < MaxTicks
        /\ Update(cursor, click, k)
        /\ UNCHANGED fn

Next == Tick

Spec == Init /\ [][Next]_vars

---------------------------------------------------------------------------
(* The program left running with the same keys held and the mouse away *)

InitHeld == NewGame /\ Ghost0 /\ keys \in HeldKeys

HeldTick ==
    /\ tick < MaxHeldTicks
    /\ Update(FarCursor, FALSE, keys)
    /\ UNCHANGED fn

NextHeld == HeldTick

SpecHeld == InitHeld /\ [][NextHeld]_vars

---------------------------------------------------------------------------
(* The mouse moved and clicked with no key held; fn keeps what the hover scan
   of the latest tick saw and returned *)

\* cursor positions, in pixels: an empty place on a line of the solid family;
\* 14 px above it; 10 px from the first and 8.49 px from the second; 8.49 px
\* from the first and 10 px from the second; on Points0[2]; far from all
ClickCursors == { <<100, 380>>, <<100, 366>>, <<106, 372>>, <<106, 374>>,
                  <<480, 320>>, FarCursor }

ClickTick ==
    /\ tick < MaxClickTicks
    /\ \E cursor \in ClickCursors, click \in BOOLEAN :
          /\ Update(cursor, click, {})
          /\ \E mouse \in {Vec(cursor[1] * LFP, cursor[2] * LFP)} :
                fn' = [op |-> "hover", mouse |-> mouse, click |-> click,
                       points |-> Points, idx |-> Hover(Points, mouse)]

NextClick == ClickTick

SpecClick == Init /\ [][NextClick]_vars

---------------------------------------------------------------------------
(* Game.Draw and drawDashedLine, main.go 213-292 *)

FloorDiv(n, d) == n \div d
CeilDiv(n, d) == -((-n) \div d)

KMin(gf) == FloorDiv(-Diag - gf.Offset, gf.Spacing) - 1
KMax(gf) == CeilDiv(Diag - gf.Offset, gf.Spacing) + 1

\* the end points p1, p2 of line k of the family
LineEnds(gf, k) ==
    LET n == gf.Normal
        t == Perp(n)
        d == k * gf.Spacing + gf.Offset
        pt == Add(Center, Mul(n, d))
        shift == IF gf.DashLength > 0 /\ gf.GapLength > 0
                 THEN Mul(t, gf.DashPhase) ELSE Vec(0, 0)
    IN  [p1 |-> Sub(Add(pt, Mul(t, Diag)), shift),
         p2 |-> Sub(Sub(pt, Mul(t, Diag)), shift)]

\* delta.Mul(1.0 / L)
UnitOf(delta, L) == Vec(Round(delta.X * UFP, L), Round(delta.Y * UFP, L))

\* the strokes of the loop of drawDashedLine from pos on: each from p1 + u*from
\* to p1 + u*to
RECURSIVE DashLoop(_, _, _, _, _, _)
DashLoop(p1, u, L, dash, gap, pos) ==
    IF ~(pos < L) THEN << >>
    ELSE LET end == IF pos + dash > L THEN L ELSE pos + dash
         IN  << [a |-> Add(p1, Mul(u, pos)), b |-> Add(p1, Mul(u, end)),
                 from |-> pos, to |-> end] >>
             \o DashLoop(p1, u, L, dash, gap, pos + dash + gap)

drawDashedLine(p1, p2, dash, gap) ==
    LET delta == Sub(p2, p1)
        L == VLen(delta)
    IN  IF L <= 0 THEN << >>
        ELSE IF dash <= 0 \/ gap <= 0
        THEN << [a |-> p1, b |-> p2, from |-> 0, to |-> L] >>
        ELSE DashLoop(p1, UnitOf(delta, L), L, dash, gap, 0)

\* a stroke of line k of the family covers the place of q along the line; the
\* far end point of a stroke is taken as not covered
DrawCovers(gf, k, q) ==
    /\ k \in KMin(gf)..KMax(gf)
    /\ LET e == LineEnds(gf, k)
           delta == Sub(e.p2, e.p1)
           L == VLen(delta)
       IN  /\ L > 0
           /\ LET x == Dot(UnitOf(delta, L), Sub(q, e.p1))
                  strokes == drawDashedLine(e.p1, e.p2, gf.DashLength, gf.GapLength)
              IN  \E i \in DOMAIN strokes : strokes[i].from <= x /\ x < strokes[i].to

---------------------------------------------------------------------------
(* Pure functions of the program applied to drawn inputs *)

FnMax == 8         \* |dAlong|, |offset| and |pos| / 2 up to this many units
FnMaxSpacing == 5  \* spacing and dash period up to this many units

FnNormals == { Vec(0, 0), Vec(UFP, 0), Vec(0, UFP), Vec(UFP, UFP), Vec(3 * UFP, 4 * UFP),
               Vec(0, -2 * UFP) }
FnSpacings == { -SpacingPx * LFP, 0, SpacingPx * LFP }
FnThicknesses == { -ThicknessPx * LFP, 0, ThicknessPx * LFP }
FnDashes == { 0, DashPx * LFP }

CallNearest ==
    /\ fn.op = "none"
    /\ \E dAlong \in (-FnMax)..FnMax, offset \in (-FnMax)..FnMax, spacing \in 1..FnMaxSpacing :
        fn' = [op |-> "nearest", dAlong |-> dAlong, offset |-> offset,
               spacing |-> spacing,
               k |-> NearestK(dAlong, offset, spacing),
               closest |-> Closest(dAlong, offset, spacing),
               dist |-> Dist(dAlong, offset, spacing)]
    /\ UNCHANGED gameVars

CallDashM ==
    /\ fn.op = "none"
    /\ \E pos \in (-2 * FnMax)..(2 * FnMax), period \in 1..FnMaxSpacing :
        fn' = [op |-> "dashM", pos |-> pos, period |-> period,
               m |-> DashM(pos, period)]
    /\ UNCHANGED gameVars

CallNewGridFamily ==
    /\ fn.op = "none"
    /\ \E normal \in FnNormals, spacing \in FnSpacings, thickness \in FnThicknesses,
          dash \in FnDashes :
        fn' = [op |-> "newGridFamily", normal |-> normal, spacing |-> spacing,
               thickness |-> thickness,
               out |-> NewGridFamily(normal, spacing, "FFFFFF", thickness, dash, dash)]
    /\ UNCHANGED gameVars

\* families and points for one evaluation of the band test, main.go 169-201:
\* the point lies across units off a line of the family and along units down
\* its tangent from the centre
FnInsideNormals == { Vec(UFP, 0), Vec(0, UFP) }
FnStyles == { -LFP, 0, DashPx * LFP }
FnPhases == { 0, 7 * LFP, -(DashPx + GapPx) * LFP }
FnOffsets == { 0, 7 * LFP }
FnAcross == { ThicknessPx * LFP + e : e \in -1..1 }
               \cup { 0, -ThicknessPx * LFP, (SpacingPx * LFP) \div 2 }
FnAlong == { Diag - DashPx * LFP + e : e \in (-FnMax)..FnMax } \cup { 0 }

FnFamily(normal, dash, gap, offset, phase) ==
    [NewGridFamily(normal, SpacingPx * LFP, "FFFFFF", ThicknessPx * LFP, dash, gap)
        EXCEPT !.Offset = offset, !.DashPhase = phase]
FnPoint(gf, across, along) ==
    Add(Center, Add(Mul(gf.Normal, gf.Offset + across), Mul(Perp(gf.Normal), along)))

CallInside ==
    /\ fn.op = "none"
    /\ \E normal \in FnInsideNormals, dash \in FnStyles, gap \in FnStyles,
          offset \in FnOffsets, phase \in FnPhases, across \in FnAcross, along \in FnAlong :
        \E gf \in {FnFamily(normal, dash, gap, offset, phase)} :
        \E p \in {FnPoint(gf, across, along)} :
            fn' = [op |-> "inside", gf |-> gf, p |-> p,
                   dist |-> Dist(DAlong(gf, p), gf.Offset, gf.Spacing),
                   m |-> IF dash > 0 /\ gap > 0
                         THEN DashM(DashPos(gf, p), dash + gap) ELSE -1,
                   inside |-> Inside(gf, p)]
    /\ UNCHANGED gameVars

NextFn == CallNearest \/ CallDashM \/ CallNewGridFamily \/ CallInside

SpecFn == Init /\ [][NextFn]_vars

---------------------------------------------------------------------------
(* Properties *)

Fired(gi, pi) == Count(blips, <<gi - 1, pi - 1>>)

\* C1: in every state reachable from NewGame by Update ticks with any mix of
\* add clicks, remove clicks and no-click ticks, lastInside has one row per
\* family and every row has one entry per tracked point.
C1_TableShape ==
    /\ Len(lastInside) = Len(Grids)
    /\ \A gi \in DOMAIN lastInside : Len(lastInside[gi]) = Len(Points)

\* a point was added in some tick and a point was removed in the latest one
C1_Witness == nextId > Len(Points0) + 1 /\ lastOp = "remove"

\* C2: in every Update, a pair gets a playBlip exactly when its inside value
\* of this tick is true and the stored value the pass found is false, and then
\* it gets exactly one.
C2_TriggerIffEdge ==
    tick > 0 =>
        /\ \A i \in DOMAIN blips :
              blips[i][1] + 1 \in DOMAIN Grids /\ blips[i][2] + 1 \in DOMAIN Points
        /\ \A gi \in DOMAIN Grids : \A pi \in DOMAIN Points :
              Fired(gi, pi) =
                 IF Inside(Grids[gi], Points[pi]) /\ ~prevInside[gi][pi] THEN 1 ELSE 0

\* one pair triggered in the latest tick while another, inside before and
\* still inside, did not
C2_Witness ==
    /\ tick > 0
    /\ \E gi \in DOMAIN Grids : \E pi \in DOMAIN Points : Fired(gi, pi) = 1
    /\ \E gi \in DOMAIN Grids : \E pi \in DOMAIN Points :
          Inside(Grids[gi], Points[pi]) /\ prevInside[gi][pi] /\ Fired(gi, pi) = 0

\* C3: for a pair whose point stays tracked, a run of N consecutive ticks
\* inside that started from a stored value of false has had exactly one
\* trigger, on the first tick of the run; a pair that was never inside has
\* had no trigger.
C3_OncePerRun ==
    \A id \in DOMAIN hist : \A gi \in DOMAIN hist[id] :
        LET h == hist[id][gi]
        IN  /\ (h.run >= 1 /\ ~h.startStored) => (h.runFires = 1 /\ h.firstFired)
            /\ ~h.ever => h.total = 0

\* a pair inside for three ticks running, and another pair never inside, while
\* some other point has been removed
C3_Witness ==
    /\ \E id \in DOMAIN hist : \E gi \in DOMAIN hist[id] :
          hist[id][gi].run >= 3 /\ ~hist[id][gi].startStored
    /\ \E id \in DOMAIN hist : \E gi \in DOMAIN hist[id] :
          ~hist[id][gi].ever /\ hist[id][gi].total = 0
    /\ Len(Points) < Len(Points0)

\* C5 as stated: no trigger fires for a newly inserted point on its first
\* evaluation after insertion.
C5_NoTriggerOnInsert ==
    lastOp = "add" => \A gi \in DOMAIN Grids : Fired(gi, Len(Points)) = 0

\* C5 as amended: a newly inserted point's stored value starts as false in
\* every family row, so its first evaluation, in the Update that inserted it,
\* triggers for exactly the families whose band it is inside; any trigger of a
\* pair falls on the first tick of a run of ticks inside, that is on an
\* evaluation inside that follows the insertion or an evaluation outside.
C5_InsertStartsFalse ==
    /\ lastOp = "add" =>
          \A gi \in DOMAIN Grids :
              /\ Len(Points) \in DOMAIN prevInside[gi]
              /\ prevInside[gi][Len(Points)] = FALSE
              /\ Fired(gi, Len(Points)) =
                    IF Inside(Grids[gi], Points[Len(Points)]) THEN 1 ELSE 0
    /\ \A id \in DOMAIN hist : \A gi \in DOMAIN hist[id] :
          LET h == hist[id][gi]
          IN  h.runFires <= 1 /\ (h.runFires = 1 => h.firstFired)

\* a point was just inserted inside the band of one family and outside the
\* band of the other
C5_Witness ==
    /\ lastOp = "add"
    /\ \E gi \in DOMAIN Grids : Fired(gi, Len(Points)) = 1
    /\ \E gi \in DOMAIN Grids :
          ~Inside(Grids[gi], Points[Len(Points)]) /\ Fired(gi, Len(Points)) = 0

ShiftDown(s, idx) == [i \in 1..(Len(s) - 1) |-> IF i < idx + 1 THEN s[i] ELSE s[i + 1]]

C6_Add ==
    /\ \E c \in Cursors : Points' = Append(Points, Vec(c[1] * LFP, c[2] * LFP))
    /\ DOMAIN prevInside' = DOMAIN lastInside
    /\ \A gi \in DOMAIN lastInside : prevInside'[gi] = Append(lastInside[gi], FALSE)

C6_Remove ==
    /\ removedIdx' + 1 \in DOMAIN Points
    /\ Points' = ShiftDown(Points, removedIdx')
    /\ DOMAIN prevInside' = DOMAIN lastInside
    /\ \A gi \in DOMAIN lastInside :
          prevInside'[gi] = ShiftDown(lastInside[gi], removedIdx')
    /\ \A gi \in DOMAIN Grids : \A j \in DOMAIN Points' :
          LET i == IF j < removedIdx' + 1 THEN j ELSE j + 1
          IN  (lastInside[gi][i] /\ Inside(Grids'[gi], Points'[j]))
                 => Count(blips', <<gi - 1, j - 1>>) = 0

\* C6: an insertion appends the new point and a false entry to every row and
\* changes no other entry; a removal of index idx deletes Points[idx] and
\* entry idx of every row, the entries before idx unchanged and those after
\* it shifted down with their points; a remaining point that was inside and
\* stays inside does not trigger in the tick of the removal.
C6_ClickFrame ==
    [][ /\ lastOp' = "add" => C6_Add
        /\ lastOp' = "remove" => C6_Remove ]_vars

\* a point before the last was removed, and a point that followed it was
\* inside before and is inside still, without a trigger
C6_Witness ==
    /\ lastOp = "remove"
    /\ \E gi \in DOMAIN Grids : \E j \in DOMAIN Points :
          /\ j >= removedIdx + 1
          /\ prevInside[gi][j] /\ lastInside[gi][j] /\ Fired(gi, j) = 0

\* C4 as stated: for a dashed family, in every reachable state and for every
\* tracked point within the band of its nearest line, the detector's dash
\* membership (m < dashLength) is true exactly when Draw and drawDashedLine
\* emit a stroke of that line covering the point's place along the line.
C4_DetectorMatchesRenderer ==
    \A gi \in DOMAIN Grids : \A pi \in DOMAIN Points :
        LET gf == Grids[gi]
            p == Points[pi]
            dAlong == DAlong(gf, p)
        IN  (IsDashed(gf) /\ Dist(dAlong, gf.Offset, gf.Spacing) <= gf.Thickness)
               => (InDash(gf, p)
                     <=> DrawCovers(gf, NearestK(dAlong, gf.Offset, gf.Spacing), p))

\* C7 as stated: a grid family with a zero-length normal, a non-positive
\* spacing or a negative thickness is never constructed: every family that
\* construction yields has a unit normal, a positive spacing and a
\* non-negative thickness.
C7_InvalidRejected ==
    fn.op = "newGridFamily" =>
        /\ VLen(fn.out.Normal) > 0
        /\ fn.out.Spacing > 0
        /\ fn.out.Thickness >= 0

\* C8: for every dAlong, offset and spacing > 0 the nearest-line computation
\* yields closest = k*spacing + offset for an integer k that minimises
\* |dAlong - (k*spacing + offset)| over the integers, so dist <= spacing/2,
\* and at exactly half a spacing k is the candidate further from zero.
C8_NearestLine ==
    fn.op = "nearest" =>
        /\ fn.closest = fn.k * fn.spacing + fn.offset
        /\ fn.dist = Abs(fn.dAlong - fn.closest)
        /\ \A k2 \in (-4 * FnMax)..(4 * FnMax) :
              Abs(fn.dAlong - (k2 * fn.spacing + fn.offset)) >= fn.dist
        /\ 2 * fn.dist <= fn.spacing
        /\ 2 * fn.dist = fn.spacing
              => Abs(fn.k) * fn.spacing > Abs(fn.dAlong - fn.offset)

\* a tie at half a spacing on the negative side
C8_Witness ==
    /\ fn.op = "nearest"
    /\ 2 * fn.dist = fn.spacing
    /\ fn.dAlong - fn.offset < 0
    /\ fn.k < 0

C9_Family(gf, gf2, st) ==
    LET n == gf.Normal
        dotN == n.X * st.X + n.Y * st.Y
        dotT == (-n.Y) * st.X + n.X * st.Y
    IN  /\ gf2.Offset = gf.Offset + Round(dotN, UFP)
        /\ gf2.DashPhase = gf.DashPhase - Round(dotT, UFP)
        /\ dotN = 0 =>
              /\ gf2.Offset = gf.Offset
              /\ Abs(gf2.DashPhase - gf.DashPhase) = VLen(st)

\* C9: each tick the step is moveDir * speed * dt, and every family's Offset
\* grows by Normal . step and its DashPhase falls by Perp(Normal) . step; for a
\* family whose normal is perpendicular to the step, Offset stays and
\* DashPhase changes by the whole length of the step.
C9_MotionStep ==
    [][ tick' = tick + 1 =>
          /\ step' = Mul(moveDir', speed' \div TicksPerSec)
          /\ DOMAIN Grids' = DOMAIN Grids
          /\ \A i \in DOMAIN Grids : C9_Family(Grids[i], Grids'[i], step') ]_vars

\* the latest step was along the lines of the second family (normal (0,1)):
\* its Offset is where it was a tick before and its DashPhase moved
C9_Witness ==
    /\ tick > 0
    /\ step.Y = 0 /\ step.X > 0
    /\ Grids[2].Normal = Vec(0, UFP)
    /\ Grids[2].DashPhase # 0

\* C10: for every pos, positive, zero or negative, and every period > 0, the
\* detector's m satisfies 0 <= m < period and m is congruent to pos modulo
\* period.
C10_DashModLaw ==
    fn.op = "dashM" =>
        /\ 0 <= fn.m
        /\ fn.m < fn.period
        /\ (fn.pos - fn.m) % fn.period = 0

\* a negative pos that is no multiple of the period
C10_Witness == fn.op = "dashM" /\ fn.pos < 0 /\ fn.m > 0

\* C11: the triggers of a pair are as many as the false-to-true transitions
\* of its inside value, counted from the stored value before its first tick;
\* over N ticks on each of which inside alternates, that is ceil(N/2) when the
\* first of them is inside and floor(N/2) when it is outside; no trigger
\* falls on a tick that finds the pair outside.
C11_TriggersAreRises ==
    \A id \in DOMAIN hist : \A gi \in DOMAIN hist[id] :
        LET h == hist[id][gi]
        IN  /\ h.total = h.rises
            /\ h.fallFires = 0
            /\ h.altFires = IF h.altFirstIn THEN (h.alt + 1) \div 2 ELSE h.alt \div 2

\* a pair whose inside value alternated on each of the last three ticks, the first of them inside
C11_Witness ==
    \E id \in DOMAIN hist : \E gi \in DOMAIN hist[id] :
        hist[id][gi].alt >= 3 /\ hist[id][gi].altFires >= 2

\* C12: a family with dashLength <= 0 or gapLength <= 0 is solid: inside is
\* true exactly when dist <= thickness, whatever the DashPhase and wherever
\* the point lies along the line, and the evaluation yields a Boolean.
C12_SolidFamily ==
    (fn.op = "inside" /\ (fn.gf.DashLength <= 0 \/ fn.gf.GapLength <= 0)) =>
        /\ fn.inside \in BOOLEAN
        /\ fn.inside = (fn.dist <= fn.gf.Thickness)
        /\ \A phase \in FnPhases, shift \in FnAlong :
               Inside([fn.gf EXCEPT !.DashPhase = phase],
                      Add(fn.p, Mul(Perp(fn.gf.Normal), shift))) = fn.inside

\* a point in the band of a family with a gap and no dash, at a place where
\* a dashed family of that gap leaves the line open
C12_Witness ==
    /\ fn.op = "inside" /\ fn.gf.DashLength <= 0 /\ fn.gf.GapLength > 0
    /\ fn.dist <= fn.gf.Thickness /\ fn.dist > 0 /\ fn.inside

\* C13: after every Update tick, for every (family, point) pair present at the
\* end of the tick, lastInside[gi][pi] is the inside value computed for the
\* pair in that tick, whether or not a trigger fired.
C13_StoredIsInside ==
    tick > 0 =>
        \A gi \in DOMAIN Grids : \A pi \in DOMAIN Points :
            lastInside[gi][pi] = Inside(Grids[gi], Points[pi])

\* one tick that stored true with a trigger, true without a trigger and
\* false over a stored true
C13_Witness ==
    /\ tick > 0
    /\ \E gi \in DOMAIN Grids : \E pi \in DOMAIN Points :
           lastInside[gi][pi] /\ Fired(gi, pi) = 1
    /\ \E gi \in DOMAIN Grids : \E pi \in DOMAIN Points :
           lastInside[gi][pi] /\ Fired(gi, pi) = 0
    /\ \E gi \in DOMAIN Grids : \E pi \in DOMAIN Points :
           ~lastInside[gi][pi] /\ Cell(prevInside, gi, pi)

\* C14: for a dashed family and a point with dist <= thickness, inside is
\* true exactly when m < dashLength (m = dashLength is outside); a point
\* with dist > thickness is outside whatever m is.
C14_HalfOpenDash ==
    (fn.op = "inside" /\ fn.gf.DashLength > 0 /\ fn.gf.GapLength > 0) =>
        /\ fn.m >= 0 /\ fn.m < fn.gf.DashLength + fn.gf.GapLength
        /\ fn.dist <= fn.gf.Thickness => (fn.inside <=> fn.m < fn.gf.DashLength)
        /\ fn.dist > fn.gf.Thickness => ~fn.inside

\* a point on the edge of the band whose m is the dash length
C14_Witness ==
    /\ fn.op = "inside" /\ fn.gf.DashLength > 0 /\ fn.gf.GapLength > 0
    /\ fn.dist = fn.gf.Thickness /\ fn.m = fn.gf.DashLength /\ ~fn.inside

\* the fields of a family other than Offset and DashPhase
Fixed(gf) ==
    [Normal |-> gf.Normal, Spacing |-> gf.Spacing, Thickness |-> gf.Thickness,
     DashLength |-> gf.DashLength, GapLength |-> gf.GapLength, Color |-> gf.Color]

\* C15: over any sequence of Update ticks the families stay as many as
\* NewGame made, each keeps the Normal, Spacing, Thickness, DashLength,
\* GapLength and Color it was constructed with, and a tick changes a family
\* only by one motion step on its Offset and its DashPhase.
C15_OnlyOffsetAndPhase ==
    [][ tick' = tick + 1 =>
          /\ Len(Grids') = Len(Grids0)
          /\ \A i \in DOMAIN Grids' :
                /\ Fixed(Grids'[i]) = Fixed(Grids0[i])
                /\ Grids'[i] = [Grids[i] EXCEPT
                                  !.Offset = @ + Dot(Grids[i].Normal, step'),
                                  !.DashPhase = @ - Dot(Perp(Grids[i].Normal), step')] ]_vars

\* after two ticks both families have moved off their constructed Offset and
\* DashPhase
C15_Witness ==
    /\ tick >= 2
    /\ \A i \in DOMAIN Grids :
          /\ Grids[i].Offset # Grids0[i].Offset
          /\ Grids[i].DashPhase # Grids0[i].DashPhase
          /\ Fixed(Grids[i]) = Fixed(Grids0[i])

\* the family as it was before the step st moved it
Unmoved(gf, st) ==
    [gf EXCEPT !.Offset = @ - Dot(gf.Normal, st),
               !.DashPhase = @ + Dot(Perp(gf.Normal), st)]

\* C16: in a tick the point set is mutated first, then every family is
\* moved, then every pair is evaluated: the pass reads the table the click
\* left, sees the points and the offsets and phases the tick ends with, and
\* evaluates each pair of that one point set once, in loop order.
C16_TickOrder ==
    [][ tick' = tick + 1 =>
          /\ prevInside' = ClickRows(lastInside, lastOp' # "none", removedIdx')
          /\ \A gi \in DOMAIN Grids' :
                /\ Len(prevInside'[gi]) = Len(Points')
                /\ Len(lastInside'[gi]) = Len(Points')
                /\ \A pi \in DOMAIN Points' :
                      lastInside'[gi][pi] = Inside(Grids'[gi], Points'[pi])
          /\ blips' = SelectSeq(LoopPairs(Len(Grids'), Len(Points')),
                         LAMBDA pr : /\ Inside(Grids'[pr[1] + 1], Points'[pr[2] + 1])
                                     /\ ~prevInside'[pr[1] + 1][pr[2] + 1]) ]_vars

\* a tick that inserted a point and triggered for it, and in which a pair is
\* inside before the motion step and outside after it
C16_Witness ==
    /\ lastOp = "add"
    /\ \E gi \in DOMAIN Grids : Fired(gi, Len(Points)) = 1
    /\ \E gi \in DOMAIN Grids : \E pi \in DOMAIN Points :
          /\ Inside(Unmoved(Grids[gi], step), Points[pi])
          /\ ~lastInside[gi][pi]

Reverse(s) == [i \in DOMAIN s |-> s[Len(s) + 1 - i]]

\* the table rows with every cell but that of pr negated
OthersFlipped(rows, pr) ==
    [gi \in DOMAIN rows |-> [pi \in DOMAIN rows[gi] |->
        IF <<gi - 1, pi - 1>> = pr THEN rows[gi][pi] ELSE ~rows[gi][pi]]]

\* C17: the evaluation of a pair changes its own cell of lastInside and
\* nothing else of the table, the points or the families; its cell and its
\* trigger do not depend on the stored value of any other pair; the pairs of
\* a tick evaluated in reverse order give the table and the set of triggers
\* that the loop order gives, which are those of the tick.
C17_PairsIndependent ==
    tick > 0 =>
        \E st \in {[grids |-> Grids, points |-> Points, rows |-> prevInside,
                    blips |-> << >>]} :
        \E order \in {LoopPairs(Len(Grids), Len(Points))} :
        \E fwd \in {PassOver(st, order)} :
        \E rev \in {PassOver(st, Reverse(order))} :
            /\ fwd.rows = lastInside /\ fwd.blips = blips
            /\ fwd.grids = Grids /\ fwd.points = Points
            /\ rev.rows = fwd.rows
            /\ {rev.blips[i] : i \in DOMAIN rev.blips} = {blips[i] : i \in DOMAIN blips}
            /\ Len(rev.blips) = Len(blips)
            /\ \A k \in DOMAIN order :
                  \E pr \in {order[k]} :
                  \E one \in {EvalPair(st, pr)} :
                  \E alone \in {EvalPair([st EXCEPT !.rows = OthersFlipped(@, pr)], pr)} :
                      /\ one.grids = Grids /\ one.points = Points
                      /\ \A q \in DOMAIN order :
                            q # k => Cell(one.rows, order[q][1] + 1, order[q][2] + 1)
                                       = Cell(prevInside, order[q][1] + 1, order[q][2] + 1)
                      /\ Cell(alone.rows, pr[1] + 1, pr[2] + 1)
                            = Cell(one.rows, pr[1] + 1, pr[2] + 1)
                      /\ alone.blips = one.blips

\* a tick whose pass triggered for a pair, cleared the cell of another and
\* left a third stored true
C17_Witness ==
    /\ tick > 0
    /\ Len(blips) >= 1
    /\ \E gi \in DOMAIN Grids : \E pi \in DOMAIN Points :
          Cell(prevInside, gi, pi) /\ ~lastInside[gi][pi]
    /\ \E gi \in DOMAIN Grids : \E pi \in DOMAIN Points :
          Cell(prevInside, gi, pi) /\ lastInside[gi][pi]

\* C18: after every Update tick the speed is non-negative: it is the speed
\* before, raised by the acceleration step if Up is held and lowered by it if
\* Down is held, and exactly zero where that would be below zero.
C18_SpeedClamped ==
    [][ tick' = tick + 1 =>
          LET up == IF "Up" \in keys' THEN AccelStep ELSE 0
              down == IF "Down" \in keys' THEN AccelStep ELSE 0
          IN  /\ speed' >= 0
              /\ speed + up - down >= 0 => speed' = speed + up - down
              /\ speed + up - down < 0 => speed' = 0 ]_vars

\* Down has been held past the tick on which the speed reached zero
C18_Witness ==
    /\ "Down" \in keys
    /\ speed = 0
    /\ tick * AccelStep > InitSpeedPx * LFP

\* distance of the i-th point the scan saw from the cursor
HoverDist(i) == Hypot(fn.points[i].X - fn.mouse.X, fn.points[i].Y - fn.mouse.Y)

\* C19: the hover scan returns -1 exactly when no point lies within the
\* radius of the cursor, and otherwise the index of a point within the radius
\* whose distance is minimal among all points; a click with a hovered point
\* removes exactly that point, a click with none appends one point at the
\* cursor, and a tick without a click leaves the points as they were.
C19_HoverAndClick ==
    fn.op = "hover" =>
        /\ fn.idx = -1 <=> \A i \in DOMAIN fn.points : HoverDist(i) > HoverRadius
        /\ fn.idx # -1 =>
              /\ fn.idx + 1 \in DOMAIN fn.points
              /\ HoverDist(fn.idx + 1) <= HoverRadius
              /\ \A i \in DOMAIN fn.points : HoverDist(fn.idx + 1) <= HoverDist(i)
        /\ (fn.click /\ fn.idx # -1) =>
              /\ lastOp = "remove" /\ removedIdx = fn.idx
              /\ Points = ShiftDown(fn.points, fn.idx)
        /\ (fn.click /\ fn.idx = -1) =>
              /\ lastOp = "add"
              /\ Points = Append(fn.points, fn.mouse)
        /\ ~fn.click => (lastOp = "none" /\ Points = fn.points /\ hoverIdx = fn.idx)

\* the click removed the closer of two points within the radius, which is
\* not the first of them, the other lying on the radius
C19_Witness ==
    /\ fn.op = "hover" /\ fn.click /\ lastOp = "remove"
    /\ \E i \in DOMAIN fn.points :
          /\ i < fn.idx + 1
          /\ HoverDist(i) = HoverRadius
          /\ HoverDist(fn.idx + 1) < HoverDist(i)

\* C20: a removal is performed at an index idx with 0 <= idx < len(Points)
\* of the points before it, and at the end of every Update tick hoverIdx is
\* -1 or an index into the current Points; it is -1 at the end of a tick that
\* removed the hovered point.
C20_IndicesValid ==
    /\ hoverIdx = -1 \/ (0 <= hoverIdx /\ hoverIdx < Len(Points))
    /\ lastOp = "remove" =>
          /\ 0 <= removedIdx /\ removedIdx < Len(Points) + 1
          /\ hoverIdx = -1
    /\ lastOp # "remove" => removedIdx = -1
    /\ ~oob

\* the latest tick removed the last point of the list
C20_Witness ==
    /\ lastOp = "remove"
    /\ removedIdx = Len(Points)
    /\ hoverIdx = -1

====
